---- MODULE Spec2Model ----
(***************************************************************************)
(* Provident Fund vs personal investment account: the comparison engine of *)
(* src/src/calculator.py and the result records of src/src/models.py.      *)
(*                                                                         *)
(* Python floats are modelled as exact rationals [n |-> numerator,         *)
(* d |-> denominator] in lowest terms with d > 0, so that equality of two  *)
(* amounts is equality of records.  A division by zero yields the value    *)
(* ZeroDivisionError, which every later operation propagates.              *)
(***************************************************************************)
EXTENDS Integers, Sequences, FiniteSets, TLC

VARIABLES
    inputs,             \* the ProvidentInputs value the engine is run with
    op,                 \* "idle", or the function whose return value is held
    args,               \* arguments of the last call
    tax_calc,           \* TaxCalculation returned by a direct call of a tax function
    provident_tax_calc, \* local provident_tax_calc of the last comparison
    personal_tax_calc,  \* local personal_tax_calc of the last comparison
    result,             \* AgeComparisonResult returned by the last comparison
    crossover_age,      \* value returned by the last find_crossover_age
    summary,            \* ComparisonSummary returned by the last run_full_comparison
    payment,            \* float returned by the last calculate_monthly_withdrawal
    monthly,            \* MonthlyWithdrawalResult of the last monthly comparison
    effective_rate,     \* value last read from TaxCalculation.effective_tax_rate
    sensitivity,        \* list returned by the last generate_sensitivity_analysis
    matrix,             \* rows of the DataFrame of the last generate_sensitivity_matrix
    returned,           \* float returned by the last direct call of a formula function
    summary_lump,       \* ComparisonSummary of the run forced to lump_sum
    summary_annuity     \* ComparisonSummary of the run forced to annuity

vars == <<inputs, op, args, tax_calc, provident_tax_calc, personal_tax_calc,
          result, crossover_age, summary, payment, monthly, effective_rate,
          sensitivity, matrix, returned, summary_lump, summary_annuity>>

(***************************************************************************)
(* Optional values: Python's None and a present value.                     *)
(***************************************************************************)
None == <<>>

Some(x) == <<x>>

Get(o) == o[1]

(***************************************************************************)
(* Exact rational arithmetic standing for Python float arithmetic.         *)
(***************************************************************************)
Abs(x) == IF x < 0 THEN -x ELSE x

RECURSIVE GCD(_, _)
GCD(a, b) == IF b = 0 THEN a ELSE GCD(b, a % b)

ZeroDivisionError == [n |-> 0, d |-> 0]

IsError(x) == x.d = 0

Norm(num, den) ==
    LET g == GCD(Abs(num), Abs(den))
        s == IF den < 0 THEN -1 ELSE 1
    IN  [n |-> s * (num \div g), d |-> s * (den \div g)]

Q(num, den) == Norm(num, den)

Zero == [n |-> 0, d |-> 1]

One == [n |-> 1, d |-> 1]

Hundred == [n |-> 100, d |-> 1]

FromInt(i) == [n |-> i, d |-> 1]

RatAdd(x, y) ==
    IF IsError(x) \/ IsError(y) THEN ZeroDivisionError
    ELSE LET g == GCD(x.d, y.d)
         IN  Norm(x.n * (y.d \div g) + y.n * (x.d \div g), x.d * (y.d \div g))

RatNeg(x) == [n |-> -x.n, d |-> x.d]

RatSub(x, y) == RatAdd(x, RatNeg(y))

RatMul(x, y) ==
    IF IsError(x) \/ IsError(y) THEN ZeroDivisionError
    ELSE IF x.n = 0 \/ y.n = 0 THEN Zero
    ELSE LET g1 == GCD(Abs(x.n), y.d)
             g2 == GCD(Abs(y.n), x.d)
         IN  [n |-> (x.n \div g1) * (y.n \div g2),
              d |-> (x.d \div g2) * (y.d \div g1)]

RatDiv(x, y) ==
    IF IsError(x) \/ IsError(y) \/ y.n = 0 THEN ZeroDivisionError
    ELSE RatMul(x, Norm(y.d, y.n))

RECURSIVE RatPow(_, _)
RatPow(x, k) == IF k = 0 THEN One ELSE RatMul(x, RatPow(x, k - 1))

RatLess(x, y) == RatSub(x, y).n < 0

RatLeq(x, y) == RatSub(x, y).n <= 0

\* Python's max(0, x)
Max0(x) == IF RatLess(Zero, x) THEN x ELSE Zero

(***************************************************************************)
(* Bounds and input domains.                                               *)
(***************************************************************************)
\* longest investment horizon (retirement age - starting age) explored
MaxYears == 3

\* age threshold of the annuity exemption, hard-wired in calculate_provident_tax
AnnuityMinAge == 60

RetirementAges == (AnnuityMinAge - 1)..(AnnuityMinAge + 1)

\* starting ages and scan bounds: from MaxYears years before the latest
\* retirement age to one year after it
StartAges == (AnnuityMinAge + 1 - MaxYears)..(AnnuityMinAge + 2)

WithdrawalModes == {"lump_sum", "annuity"}

ProvidentReturns == {Q(0, 1), Q(7, 4)}

PersonalReturns == {Q(0, 1), Q(7, 4), Q(2, 1)}

MgmtFees == {Q(0, 1), Q(1, 4)}

InflationRates == {Q(0, 1), Q(1, 4)}

TaxRates == {Q(0, 1), Q(1, 2)}

Contributions == {Q(0, 1), Q(2, 1)}

EngineInputs ==
    [current_age : {AnnuityMinAge - 2},
     retirement_age : RetirementAges,
     life_expectancy : {AnnuityMinAge + 2},
     annual_contribution : Contributions,
     annual_cap : {Q(1, 1)},
     provident_expected_return : ProvidentReturns,
     personal_expected_return : PersonalReturns,
     inflation_rate : InflationRates,
     provident_mgmt_fee : MgmtFees,
     personal_mgmt_fee : MgmtFees,
     capital_gains_tax : TaxRates,
     withdrawal_mode : WithdrawalModes]

(***************************************************************************)
(* models.py: ProvidentInputs                                              *)
(***************************************************************************)
get_provident_net_return_FeeAdded(self) ==
    RatSub(RatMul(RatAdd(One, self.provident_expected_return),
                  RatAdd(One, self.provident_mgmt_fee)), One)

get_provident_net_return(self) ==
    RatSub(RatMul(RatAdd(One, self.provident_expected_return),
                  RatSub(One, self.provident_mgmt_fee)), One)

get_personal_net_return(self) ==
    RatSub(RatMul(RatAdd(One, self.personal_expected_return),
                  RatSub(One, self.personal_mgmt_fee)), One)

get_investment_years(self) ==
    IF self.retirement_age - self.current_age > 0
    THEN self.retirement_age - self.current_age ELSE 0

\* min(annual_contribution, annual_cap); no engine function calls it
get_effective_contribution(self) ==
    IF RatLess(self.annual_cap, self.annual_contribution)
    THEN self.annual_cap ELSE self.annual_contribution

\* the @dataclass-generated constructor: it stores the twelve fields as given
\* and has no __post_init__, so it raises for no field values
ProvidentInputs(fields) == fields

(***************************************************************************)
(* models.py: TaxCalculation                                               *)
(***************************************************************************)
\* mutant: the division is not guarded against a zero balance
effective_tax_rate_Unguarded(self) ==
    RatDiv(self.tax_amount, self.gross_balance)

effective_tax_rate(self) ==
    IF self.gross_balance = Zero THEN Zero
    ELSE RatDiv(self.tax_amount, self.gross_balance)

(***************************************************************************)
(* calculator.py: future value and inflation-adjusted contributions        *)
(***************************************************************************)
\* mutant: the zero-return branch forgets the contribution factor
calculate_future_value_YearsOnly(annual_contribution, annual_return, years) ==
    IF years <= 0 THEN Zero
    ELSE IF annual_return = Zero THEN FromInt(years)
    ELSE RatMul(annual_contribution,
                RatDiv(RatSub(RatPow(RatAdd(One, annual_return), years), One),
                       annual_return))

\* mutant: the deposits earn nothing
calculate_future_value_NoGrowth(annual_contribution, annual_return, years) ==
    IF years <= 0 THEN Zero
    ELSE RatMul(annual_contribution, FromInt(years))

\* mutant: every contribution is deposited at the start of its year
calculate_future_value_AnnuityDue(annual_contribution, annual_return, years) ==
    IF years <= 0 THEN Zero
    ELSE IF annual_return = Zero THEN RatMul(annual_contribution, FromInt(years))
    ELSE RatMul(RatMul(annual_contribution,
                       RatDiv(RatSub(RatPow(RatAdd(One, annual_return), years), One),
                              annual_return)),
                RatAdd(One, annual_return))

calculate_future_value(annual_contribution, annual_return, years) ==
    IF years <= 0 THEN Zero
    ELSE IF annual_return = Zero THEN RatMul(annual_contribution, FromInt(years))
    ELSE RatMul(annual_contribution,
                RatDiv(RatSub(RatPow(RatAdd(One, annual_return), years), One),
                       annual_return))

RECURSIVE InflationLoop(_, _, _, _, _)
\* the for-loop of calculate_inflation_adjusted_contributions from `year` on
InflationLoop(annual_contribution, inflation_rate, years, year, total) ==
    IF year > years THEN total
    ELSE LET years_to_grow == years - year
             adjusted == RatMul(annual_contribution,
                                RatPow(RatAdd(One, inflation_rate), years_to_grow))
         IN  InflationLoop(annual_contribution, inflation_rate, years, year + 1,
                           RatAdd(total, adjusted))

\* mutant: the contributions are summed without being inflated
calculate_inflation_adjusted_contributions_Nominal(annual_contribution, inflation_rate, years) ==
    IF years <= 0 THEN Zero
    ELSE RatMul(annual_contribution, FromInt(years))

calculate_inflation_adjusted_contributions(annual_contribution, inflation_rate, years) ==
    IF years <= 0 THEN Zero
    ELSE InflationLoop(annual_contribution, inflation_rate, years, 1, Zero)

(***************************************************************************)
(* calculator.py: the two tax rules                                        *)
(***************************************************************************)
\* mutant: the net balance is taken from the taxed branch even when the annuity
\* exemption sets the tax to 0
calculate_provident_tax_NetIgnoresExemption(gross_balance, total_contributions, inflation_adjusted_contributions, capital_gains_tax, withdrawal_mode, age_at_withdrawal) ==
    LET nominal_gain == Max0(RatSub(gross_balance, total_contributions))
        real_gain == Max0(RatSub(gross_balance, inflation_adjusted_contributions))
        tax_amount == IF withdrawal_mode = "annuity" /\ age_at_withdrawal >= AnnuityMinAge
                      THEN Zero
                      ELSE RatMul(capital_gains_tax, real_gain)
        net_balance == RatSub(gross_balance, RatMul(capital_gains_tax, real_gain))
    IN  [gross_balance |-> gross_balance,
         total_contributions |-> total_contributions,
         inflation_adjusted_contributions |-> inflation_adjusted_contributions,
         nominal_gain |-> nominal_gain,
         real_gain |-> real_gain,
         tax_amount |-> tax_amount,
         net_balance |-> net_balance]

\* mutant: the exemption starts one year late (age > 60 instead of >= 60)
calculate_provident_tax_StrictAge(gross_balance, total_contributions, inflation_adjusted_contributions, capital_gains_tax, withdrawal_mode, age_at_withdrawal) ==
    LET nominal_gain == Max0(RatSub(gross_balance, total_contributions))
        real_gain == Max0(RatSub(gross_balance, inflation_adjusted_contributions))
        tax_amount == IF withdrawal_mode = "annuity" /\ age_at_withdrawal > AnnuityMinAge
                      THEN Zero
                      ELSE RatMul(capital_gains_tax, real_gain)
        net_balance == RatSub(gross_balance, tax_amount)
    IN  [gross_balance |-> gross_balance,
         total_contributions |-> total_contributions,
         inflation_adjusted_contributions |-> inflation_adjusted_contributions,
         nominal_gain |-> nominal_gain,
         real_gain |-> real_gain,
         tax_amount |-> tax_amount,
         net_balance |-> net_balance]

\* mutant: the lump-sum tax is charged on the nominal gain instead of the real gain
calculate_provident_tax_NominalGain(gross_balance, total_contributions, inflation_adjusted_contributions, capital_gains_tax, withdrawal_mode, age_at_withdrawal) ==
    LET nominal_gain == Max0(RatSub(gross_balance, total_contributions))
        real_gain == Max0(RatSub(gross_balance, inflation_adjusted_contributions))
        tax_amount == IF withdrawal_mode = "annuity" /\ age_at_withdrawal >= AnnuityMinAge
                      THEN Zero
                      ELSE RatMul(capital_gains_tax, nominal_gain)
        net_balance == RatSub(gross_balance, tax_amount)
    IN  [gross_balance |-> gross_balance,
         total_contributions |-> total_contributions,
         inflation_adjusted_contributions |-> inflation_adjusted_contributions,
         nominal_gain |-> nominal_gain,
         real_gain |-> real_gain,
         tax_amount |-> tax_amount,
         net_balance |-> net_balance]

\* mutant: the annuity exemption starts one year early
calculate_provident_tax_EarlyAnnuity(gross_balance, total_contributions, inflation_adjusted_contributions, capital_gains_tax, withdrawal_mode, age_at_withdrawal) ==
    LET nominal_gain == Max0(RatSub(gross_balance, total_contributions))
        real_gain == Max0(RatSub(gross_balance, inflation_adjusted_contributions))
        tax_amount == IF withdrawal_mode = "annuity"
                         /\ age_at_withdrawal >= AnnuityMinAge - 1
                      THEN Zero
                      ELSE RatMul(capital_gains_tax, real_gain)
        net_balance == RatSub(gross_balance, tax_amount)
    IN  [gross_balance |-> gross_balance,
         total_contributions |-> total_contributions,
         inflation_adjusted_contributions |-> inflation_adjusted_contributions,
         nominal_gain |-> nominal_gain,
         real_gain |-> real_gain,
         tax_amount |-> tax_amount,
         net_balance |-> net_balance]

calculate_provident_tax(gross_balance, total_contributions, inflation_adjusted_contributions, capital_gains_tax, withdrawal_mode, age_at_withdrawal) ==
    LET nominal_gain == Max0(RatSub(gross_balance, total_contributions))
        real_gain == Max0(RatSub(gross_balance, inflation_adjusted_contributions))
        tax_amount == IF withdrawal_mode = "annuity" /\ age_at_withdrawal >= AnnuityMinAge
                      THEN Zero
                      ELSE RatMul(capital_gains_tax, real_gain)
        net_balance == RatSub(gross_balance, tax_amount)
    IN  [gross_balance |-> gross_balance,
         total_contributions |-> total_contributions,
         inflation_adjusted_contributions |-> inflation_adjusted_contributions,
         nominal_gain |-> nominal_gain,
         real_gain |-> real_gain,
         tax_amount |-> tax_amount,
         net_balance |-> net_balance]

\* mutant: the gain is not clamped at 0, so a loss yields a negative tax
calculate_personal_tax_Unclamped(gross_balance, total_contributions, capital_gains_tax) ==
    LET nominal_gain == RatSub(gross_balance, total_contributions)
        tax_amount == RatMul(capital_gains_tax, nominal_gain)
        net_balance == RatSub(gross_balance, tax_amount)
    IN  [gross_balance |-> gross_balance,
         total_contributions |-> total_contributions,
         inflation_adjusted_contributions |-> total_contributions,
         nominal_gain |-> nominal_gain,
         real_gain |-> nominal_gain,
         tax_amount |-> tax_amount,
         net_balance |-> net_balance]

calculate_personal_tax(gross_balance, total_contributions, capital_gains_tax) ==
    LET nominal_gain == Max0(RatSub(gross_balance, total_contributions))
        tax_amount == RatMul(capital_gains_tax, nominal_gain)
        net_balance == RatSub(gross_balance, tax_amount)
    IN  [gross_balance |-> gross_balance,
         total_contributions |-> total_contributions,
         inflation_adjusted_contributions |-> total_contributions,
         nominal_gain |-> nominal_gain,
         real_gain |-> nominal_gain,
         tax_amount |-> tax_amount,
         net_balance |-> net_balance]

(***************************************************************************)
(* calculator.py: calculate_comparison_for_starting_age                    *)
(***************************************************************************)
\* One call's locals: the two TaxCalculation values (None on the early return)
\* and the AgeComparisonResult returned.

\* the early return for investment_years <= 0
ZeroComparison(starting_age, in) ==
    [provident_tax_calc |-> None,
     personal_tax_calc |-> None,
     ret |-> [starting_age |-> starting_age,
              retirement_age |-> in.retirement_age,
              investment_years |-> 0,
              provident_gross |-> Zero,
              provident_contributions |-> Zero,
              provident_tax |-> Zero,
              provident_net |-> Zero,
              personal_gross |-> Zero,
              personal_contributions |-> Zero,
              personal_tax |-> Zero,
              personal_net |-> Zero,
              withdrawal_mode |-> in.withdrawal_mode]]

\* the body after the early return
ComputedComparison(starting_age, in, investment_years) ==
    LET provident_contribution == in.annual_contribution
        personal_contribution == in.annual_contribution
        provident_net_return == get_provident_net_return(in)
        personal_net_return == get_personal_net_return(in)
        provident_gross == calculate_future_value(
            provident_contribution, provident_net_return, investment_years)
        personal_gross == calculate_future_value(
            personal_contribution, personal_net_return, investment_years)
        provident_contributions ==
            RatMul(provident_contribution, FromInt(investment_years))
        personal_contributions ==
            RatMul(personal_contribution, FromInt(investment_years))
        provident_inflation_adjusted == calculate_inflation_adjusted_contributions(
            provident_contribution, in.inflation_rate, investment_years)
        p_tax == calculate_provident_tax(
            provident_gross, provident_contributions, provident_inflation_adjusted,
            in.capital_gains_tax, in.withdrawal_mode, in.retirement_age)
        q_tax == calculate_personal_tax(
            personal_gross, personal_contributions, in.capital_gains_tax)
    IN  [provident_tax_calc |-> Some(p_tax),
         personal_tax_calc |-> Some(q_tax),
         ret |-> [starting_age |-> starting_age,
                  retirement_age |-> in.retirement_age,
                  investment_years |-> investment_years,
                  provident_gross |-> provident_gross,
                  provident_contributions |-> provident_contributions,
                  provident_tax |-> p_tax.tax_amount,
                  provident_net |-> p_tax.net_balance,
                  personal_gross |-> personal_gross,
                  personal_contributions |-> personal_contributions,
                  personal_tax |-> q_tax.tax_amount,
                  personal_net |-> q_tax.net_balance,
                  withdrawal_mode |-> in.withdrawal_mode]]

\* mutant: the early return for investment_years <= 0 is missing
ComparisonCall_NoEarlyReturn(starting_age, in) ==
    ComputedComparison(starting_age, in, in.retirement_age - starting_age)

ComparisonCall(starting_age, in) ==
    LET investment_years == in.retirement_age - starting_age
    IN  IF investment_years <= 0
        THEN ZeroComparison(starting_age, in)
        ELSE ComputedComparison(starting_age, in, investment_years)

calculate_comparison_for_starting_age(starting_age, in) ==
    ComparisonCall(starting_age, in).ret

(***************************************************************************)
(* models.py: the derived properties of AgeComparisonResult                *)
(***************************************************************************)
difference(self) == RatSub(self.provident_net, self.personal_net)

\* mutant: the guard against personal_net = 0 is missing
difference_pct_Unguarded(self) ==
    RatMul(RatDiv(RatSub(self.provident_net, self.personal_net),
                  self.personal_net), Hundred)

difference_pct(self) ==
    IF self.personal_net = Zero THEN Zero
    ELSE RatMul(RatDiv(RatSub(self.provident_net, self.personal_net),
                       self.personal_net), Hundred)

winner(self) ==
    IF RatLess(Zero, difference(self)) THEN "Provident Fund"
    ELSE IF RatLess(difference(self), Zero) THEN "Personal Account"
    ELSE "Tie"

\* mutant: a tie counts as a win of the Provident Fund (>= instead of >)
provident_wins_OnTie(self) == ~RatLess(difference(self), Zero)

provident_wins(self) == RatLess(Zero, difference(self))

(***************************************************************************)
(* calculator.py: find_crossover_age                                       *)
(***************************************************************************)
RECURSIVE CrossoverLoop(_, _, _)
\* the for-loop over range(min_age, max_age + 1) from `age` on, with its break
CrossoverLoop(in, age, max_age) ==
    IF age > max_age THEN None
    ELSE IF provident_wins(calculate_comparison_for_starting_age(age, in))
         THEN Some(age)
         ELSE CrossoverLoop(in, age + 1, max_age)

RECURSIVE CrossoverLoopDown(_, _, _)
CrossoverLoopDown(in, min_age, age) ==
    IF age < min_age THEN None
    ELSE IF provident_wins(calculate_comparison_for_starting_age(age, in))
         THEN Some(age)
         ELSE CrossoverLoopDown(in, min_age, age - 1)

\* mutant: the scan runs from max_age down to min_age, as the docstring says
find_crossover_age_Descending(in, min_age, max_age) ==
    CrossoverLoopDown(in, min_age, max_age)

find_crossover_age(in, min_age, max_age) == CrossoverLoop(in, min_age, max_age)

(***************************************************************************)
(* calculator.py: run_full_comparison; models.py: ComparisonSummary        *)
(***************************************************************************)
RECURSIVE AgeResultsLoop(_, _, _, _)
\* the for-loop over range(min_age, max_age + 1) from `age` on
AgeResultsLoop(in, age, max_age, age_results) ==
    IF age > max_age THEN age_results
    ELSE AgeResultsLoop(in, age + 1, max_age,
             Append(age_results, calculate_comparison_for_starting_age(age, in)))

RECURSIVE AgeResultsLoopExclusive(_, _, _, _)
\* mutant: the loop stops one age early (range(min_age, max_age))
AgeResultsLoopExclusive(in, age, max_age, age_results) ==
    IF age >= max_age THEN age_results
    ELSE AgeResultsLoopExclusive(in, age + 1, max_age,
             Append(age_results, calculate_comparison_for_starting_age(age, in)))

\* mutant of run_full_comparison built on the loop that stops one age early
run_full_comparison_Exclusive(in, min_age, max_age) ==
    [inputs |-> in,
     age_results |-> AgeResultsLoopExclusive(in, min_age, max_age, <<>>),
     crossover_age |-> find_crossover_age(in, min_age, max_age),
     provident_net_return |-> get_provident_net_return(in),
     personal_net_return |-> get_personal_net_return(in)]

\* mutant of run_full_comparison whose crossover search runs from max_age down
run_full_comparison_CrossoverDescending(in, min_age, max_age) ==
    [inputs |-> in,
     age_results |-> AgeResultsLoop(in, min_age, max_age, <<>>),
     crossover_age |-> find_crossover_age_Descending(in, min_age, max_age),
     provident_net_return |-> get_provident_net_return(in),
     personal_net_return |-> get_personal_net_return(in)]

run_full_comparison(in, min_age, max_age) ==
    [inputs |-> in,
     age_results |-> AgeResultsLoop(in, min_age, max_age, <<>>),
     crossover_age |-> find_crossover_age(in, min_age, max_age),
     provident_net_return |-> get_provident_net_return(in),
     personal_net_return |-> get_personal_net_return(in)]

RECURSIVE CurrentAgeLoop(_, _, _)
\* the for-loop of ComparisonSummary.current_age_result from index i on
CurrentAgeLoop(self, i, n) ==
    IF i > n THEN None
    ELSE IF self.age_results[i].starting_age = self.inputs.current_age
         THEN Some(self.age_results[i])
         ELSE CurrentAgeLoop(self, i + 1, n)

current_age_result(self) == CurrentAgeLoop(self, 1, Len(self.age_results))

winner_at_current_age(self) ==
    LET r == current_age_result(self)
    IN  IF r # None THEN winner(Get(r)) ELSE "Unknown"

has_crossover(self) == self.crossover_age # None

(***************************************************************************)
(* calculator.py: sensitivity analysis                                     *)
(***************************************************************************)
\* defaults of find_crossover_age(inputs, min_age=18, max_age=59)
DefaultMinAge == 18

DefaultMaxAge == 59

\* the starting age at which generate_sensitivity_analysis reports the advantage
AdvantageAge == 30

DefaultReturnRates ==
    <<Q(4, 100), Q(5, 100), Q(6, 100), Q(7, 100), Q(8, 100), Q(9, 100), Q(10, 100)>>

DefaultInflationRates == <<Q(1, 100), Q(2, 100), Q(25, 1000), Q(3, 100), Q(4, 100)>>

\* modified_inputs: a new ProvidentInputs with the base's fields, both returns
\* set to `ret` and the inflation rate to `inf`
ModifiedInputs(base_inputs, ret, inf) ==
    ProvidentInputs(
        [current_age |-> base_inputs.current_age,
         retirement_age |-> base_inputs.retirement_age,
         life_expectancy |-> base_inputs.life_expectancy,
         annual_contribution |-> base_inputs.annual_contribution,
         annual_cap |-> base_inputs.annual_cap,
         provident_expected_return |-> ret,
         personal_expected_return |-> ret,
         inflation_rate |-> inf,
         provident_mgmt_fee |-> base_inputs.provident_mgmt_fee,
         personal_mgmt_fee |-> base_inputs.personal_mgmt_fee,
         capital_gains_tax |-> base_inputs.capital_gains_tax,
         withdrawal_mode |-> base_inputs.withdrawal_mode])

\* test_inputs: as modified_inputs, with current_age = 30
TestInputs(base_inputs, ret, inf) ==
    ProvidentInputs([ModifiedInputs(base_inputs, ret, inf) EXCEPT !.current_age = AdvantageAge])

\* one SensitivityPoint, the body of the two nested loops
SensitivityPoint(base_inputs, ret, inf) ==
    [return_rate |-> ret,
     inflation_rate |-> inf,
     crossover_age |-> find_crossover_age(ModifiedInputs(base_inputs, ret, inf),
                                          DefaultMinAge, DefaultMaxAge),
     provident_advantage_at_30 |->
         difference(calculate_comparison_for_starting_age(
                        AdvantageAge, TestInputs(base_inputs, ret, inf)))]

\* return_rates and inflation_rates are None or Some(list); the results are
\* appended return rate by return rate, inflation rate by inflation rate
generate_sensitivity_analysis(base_inputs, return_rates, inflation_rates) ==
    LET rets == IF return_rates = None THEN DefaultReturnRates ELSE Get(return_rates)
        infs == IF inflation_rates = None THEN DefaultInflationRates
                ELSE Get(inflation_rates)
    IN  [k \in 1..(Len(rets) * Len(infs)) |->
            SensitivityPoint(base_inputs,
                             rets[((k - 1) \div Len(infs)) + 1],
                             infs[((k - 1) % Len(infs)) + 1])]

\* The rows of the DataFrame, one per return rate, each with one cell per
\* inflation rate: the crossover age, or "Never" (the row and column labels,
\* formatted percentages, are not modelled).
generate_sensitivity_matrix(base_inputs, return_rates, inflation_rates) ==
    LET rets == IF return_rates = None THEN DefaultReturnRates ELSE Get(return_rates)
        infs == IF inflation_rates = None THEN DefaultInflationRates
                ELSE Get(inflation_rates)
    IN  [i \in 1..Len(rets) |->
            [j \in 1..Len(infs) |->
                LET crossover == find_crossover_age(
                                     ModifiedInputs(base_inputs, rets[i], infs[j]),
                                     DefaultMinAge, DefaultMaxAge)
                IN  IF crossover = None \/ Get(crossover) = 0 THEN "Never"
                    ELSE Get(crossover)]]

(***************************************************************************)
(* calculator.py: monthly withdrawals                                      *)
(***************************************************************************)
\* mutant: the discount factor is (1 + r)^n instead of (1 + r)^-n
calculate_monthly_withdrawal_PositiveExponent(balance, withdrawal_years, annual_return_during_withdrawal) ==
    IF withdrawal_years <= 0 \/ RatLeq(balance, Zero) THEN Zero
    ELSE LET monthly_rate == RatDiv(annual_return_during_withdrawal, FromInt(12))
             total_months == withdrawal_years * 12
         IN  IF monthly_rate = Zero THEN RatDiv(balance, FromInt(total_months))
             ELSE RatMul(balance,
                         RatDiv(monthly_rate,
                                RatSub(One, RatPow(RatAdd(One, monthly_rate),
                                                   total_months))))

\* x ** -n is 1 / x ** n
calculate_monthly_withdrawal(balance, withdrawal_years, annual_return_during_withdrawal) ==
    IF withdrawal_years <= 0 \/ RatLeq(balance, Zero) THEN Zero
    ELSE LET monthly_rate == RatDiv(annual_return_during_withdrawal, FromInt(12))
             total_months == withdrawal_years * 12
         IN  IF monthly_rate = Zero THEN RatDiv(balance, FromInt(total_months))
             ELSE RatMul(balance,
                         RatDiv(monthly_rate,
                                RatSub(One, RatDiv(One, RatPow(RatAdd(One, monthly_rate),
                                                               total_months)))))

\* The local withdrawal_return of calculate_monthly_withdrawal_comparison.  The
\* source's literal is 0.03, a monthly rate of 1/400, whose 12th power has a
\* 32-digit denominator; the model takes 12 (a monthly rate of 1) so that the
\* payment formula's branch for a rate other than 0 is computed exactly.
withdrawal_return == Q(12, 1)

\* mutant: the whole payment is taxed, not its gain portion
calculate_monthly_withdrawal_comparison_WholeTaxed(in) ==
    LET r == calculate_comparison_for_starting_age(in.current_age, in)
        withdrawal_years == IF in.life_expectancy - in.retirement_age <= 0 THEN 1
                            ELSE in.life_expectancy - in.retirement_age
        provident_gross_monthly ==
            calculate_monthly_withdrawal(r.provident_gross, withdrawal_years, withdrawal_return)
        personal_gross_monthly ==
            calculate_monthly_withdrawal(r.personal_gross, withdrawal_years, withdrawal_return)
        tax_per_month == RatMul(personal_gross_monthly, in.capital_gains_tax)
    IN  [provident_balance |-> r.provident_gross,
         provident_contributions |-> r.provident_contributions,
         provident_gross_monthly |-> provident_gross_monthly,
         provident_net_monthly |-> provident_gross_monthly,
         personal_balance |-> r.personal_gross,
         personal_contributions |-> r.personal_contributions,
         personal_gross_monthly |-> personal_gross_monthly,
         personal_net_monthly |-> RatSub(personal_gross_monthly, tax_per_month),
         personal_tax_per_month |-> tax_per_month,
         withdrawal_years |-> withdrawal_years,
         withdrawal_return |-> withdrawal_return]

\* mutant: the withdrawal horizon is not forced to one year
calculate_monthly_withdrawal_comparison_HorizonUnforced(in) ==
    LET r == calculate_comparison_for_starting_age(in.current_age, in)
        withdrawal_years == in.life_expectancy - in.retirement_age
        provident_gross_monthly ==
            calculate_monthly_withdrawal(r.provident_gross, withdrawal_years, withdrawal_return)
        personal_gross_monthly ==
            calculate_monthly_withdrawal(r.personal_gross, withdrawal_years, withdrawal_return)
        provident_net_monthly == provident_gross_monthly
        gain_ratio == IF RatLess(Zero, r.personal_gross)
                      THEN RatDiv(RatSub(r.personal_gross, r.personal_contributions),
                                  r.personal_gross)
                      ELSE Zero
        taxable_per_month == RatMul(personal_gross_monthly, gain_ratio)
        tax_per_month == RatMul(taxable_per_month, in.capital_gains_tax)
        personal_net_monthly == RatSub(personal_gross_monthly, tax_per_month)
    IN  [provident_balance |-> r.provident_gross,
         provident_contributions |-> r.provident_contributions,
         provident_gross_monthly |-> provident_gross_monthly,
         provident_net_monthly |-> provident_net_monthly,
         personal_balance |-> r.personal_gross,
         personal_contributions |-> r.personal_contributions,
         personal_gross_monthly |-> personal_gross_monthly,
         personal_net_monthly |-> personal_net_monthly,
         personal_tax_per_month |-> tax_per_month,
         withdrawal_years |-> withdrawal_years,
         withdrawal_return |-> withdrawal_return]

\* mutant: the fund's monthly payment is untaxed only where the lump-sum rule
\* exempts it, an annuity at 60 or later
calculate_monthly_withdrawal_comparison_ModeAware(in) ==
    LET r == calculate_comparison_for_starting_age(in.current_age, in)
        withdrawal_years == IF in.life_expectancy - in.retirement_age <= 0 THEN 1
                            ELSE in.life_expectancy - in.retirement_age
        provident_gross_monthly ==
            calculate_monthly_withdrawal(r.provident_gross, withdrawal_years, withdrawal_return)
        personal_gross_monthly ==
            calculate_monthly_withdrawal(r.personal_gross, withdrawal_years, withdrawal_return)
        provident_net_monthly ==
            IF in.withdrawal_mode = "annuity" /\ in.retirement_age >= AnnuityMinAge
            THEN provident_gross_monthly
            ELSE RatSub(provident_gross_monthly,
                        RatMul(provident_gross_monthly, in.capital_gains_tax))
        gain_ratio == IF RatLess(Zero, r.personal_gross)
                      THEN RatDiv(RatSub(r.personal_gross, r.personal_contributions),
                                  r.personal_gross)
                      ELSE Zero
        taxable_per_month == RatMul(personal_gross_monthly, gain_ratio)
        tax_per_month == RatMul(taxable_per_month, in.capital_gains_tax)
        personal_net_monthly == RatSub(personal_gross_monthly, tax_per_month)
    IN  [provident_balance |-> r.provident_gross,
         provident_contributions |-> r.provident_contributions,
         provident_gross_monthly |-> provident_gross_monthly,
         provident_net_monthly |-> provident_net_monthly,
         personal_balance |-> r.personal_gross,
         personal_contributions |-> r.personal_contributions,
         personal_gross_monthly |-> personal_gross_monthly,
         personal_net_monthly |-> personal_net_monthly,
         personal_tax_per_month |-> tax_per_month,
         withdrawal_years |-> withdrawal_years,
         withdrawal_return |-> withdrawal_return]

\* mutant: the fund's monthly payment is taxed on its gain portion as well
calculate_monthly_withdrawal_comparison_ProvidentTaxed(in) ==
    LET r == calculate_comparison_for_starting_age(in.current_age, in)
        withdrawal_years == IF in.life_expectancy - in.retirement_age <= 0 THEN 1
                            ELSE in.life_expectancy - in.retirement_age
        provident_gross_monthly ==
            calculate_monthly_withdrawal(r.provident_gross, withdrawal_years, withdrawal_return)
        personal_gross_monthly ==
            calculate_monthly_withdrawal(r.personal_gross, withdrawal_years, withdrawal_return)
        provident_gain_ratio == IF RatLess(Zero, r.provident_gross)
                                THEN RatDiv(RatSub(r.provident_gross, r.provident_contributions),
                                            r.provident_gross)
                                ELSE Zero
        provident_net_monthly ==
            RatSub(provident_gross_monthly,
                   RatMul(RatMul(provident_gross_monthly, provident_gain_ratio),
                          in.capital_gains_tax))
        gain_ratio == IF RatLess(Zero, r.personal_gross)
                      THEN RatDiv(RatSub(r.personal_gross, r.personal_contributions),
                                  r.personal_gross)
                      ELSE Zero
        taxable_per_month == RatMul(personal_gross_monthly, gain_ratio)
        tax_per_month == RatMul(taxable_per_month, in.capital_gains_tax)
        personal_net_monthly == RatSub(personal_gross_monthly, tax_per_month)
    IN  [provident_balance |-> r.provident_gross,
         provident_contributions |-> r.provident_contributions,
         provident_gross_monthly |-> provident_gross_monthly,
         provident_net_monthly |-> provident_net_monthly,
         personal_balance |-> r.personal_gross,
         personal_contributions |-> r.personal_contributions,
         personal_gross_monthly |-> personal_gross_monthly,
         personal_net_monthly |-> personal_net_monthly,
         personal_tax_per_month |-> tax_per_month,
         withdrawal_years |-> withdrawal_years,
         withdrawal_return |-> withdrawal_return]

calculate_monthly_withdrawal_comparison(in) ==
    LET r == calculate_comparison_for_starting_age(in.current_age, in)
        withdrawal_years == IF in.life_expectancy - in.retirement_age <= 0 THEN 1
                            ELSE in.life_expectancy - in.retirement_age
        provident_gross_monthly ==
            calculate_monthly_withdrawal(r.provident_gross, withdrawal_years, withdrawal_return)
        personal_gross_monthly ==
            calculate_monthly_withdrawal(r.personal_gross, withdrawal_years, withdrawal_return)
        provident_net_monthly == provident_gross_monthly
        gain_ratio == IF RatLess(Zero, r.personal_gross)
                      THEN RatDiv(RatSub(r.personal_gross, r.personal_contributions),
                                  r.personal_gross)
                      ELSE Zero
        taxable_per_month == RatMul(personal_gross_monthly, gain_ratio)
        tax_per_month == RatMul(taxable_per_month, in.capital_gains_tax)
        personal_net_monthly == RatSub(personal_gross_monthly, tax_per_month)
    IN  [provident_balance |-> r.provident_gross,
         provident_contributions |-> r.provident_contributions,
         provident_gross_monthly |-> provident_gross_monthly,
         provident_net_monthly |-> provident_net_monthly,
         personal_balance |-> r.personal_gross,
         personal_contributions |-> r.personal_contributions,
         personal_gross_monthly |-> personal_gross_monthly,
         personal_net_monthly |-> personal_net_monthly,
         personal_tax_per_month |-> tax_per_month,
         withdrawal_years |-> withdrawal_years,
         withdrawal_return |-> withdrawal_return]

(***************************************************************************)
(* models.py: MonthlyWithdrawalResult                                      *)
(***************************************************************************)
monthly_difference(self) ==
    RatSub(self.provident_net_monthly, self.personal_net_monthly)

personal_gain_ratio(self) ==
    IF self.personal_balance = Zero THEN Zero
    ELSE RatDiv(RatSub(self.personal_balance, self.personal_contributions),
                self.personal_balance)

lifetime_tax_savings(self) ==
    RatMul(RatMul(self.personal_tax_per_month, FromInt(12)),
           FromInt(self.withdrawal_years))

(***************************************************************************)
(* The engine as a state machine.  The caller (app.py) constructs one      *)
(* ProvidentInputs value, then calls the engine's functions one at a time: *)
(* op = "idle" when no call's result is held, otherwise the name of the    *)
(* function whose return value is held.  Discard drops the held value.     *)
(***************************************************************************)
NoArgs == [none |-> TRUE]

Cleared ==
    /\ tax_calc' = None
    /\ provident_tax_calc' = None
    /\ personal_tax_calc' = None
    /\ result' = None
    /\ crossover_age' = None
    /\ summary' = None
    /\ payment' = None
    /\ monthly' = None
    /\ effective_rate' = None
    /\ sensitivity' = None
    /\ matrix' = None
    /\ returned' = None
    /\ summary_lump' = None
    /\ summary_annuity' = None

Init ==
    /\ inputs \in EngineInputs
    /\ op = "idle"
    /\ args = NoArgs
    /\ tax_calc = None
    /\ provident_tax_calc = None
    /\ personal_tax_calc = None
    /\ result = None
    /\ crossover_age = None
    /\ summary = None
    /\ payment = None
    /\ monthly = None
    /\ effective_rate = None
    /\ sensitivity = None
    /\ matrix = None
    /\ returned = None
    /\ summary_lump = None
    /\ summary_annuity = None

CalculateComparison ==
    /\ op = "idle"
    /\ \E starting_age \in StartAges :
        LET call == ComparisonCall(starting_age, inputs)
        IN  /\ op' = "calculate_comparison_for_starting_age"
            /\ args' = [starting_age |-> starting_age]
            /\ provident_tax_calc' = call.provident_tax_calc
            /\ personal_tax_calc' = call.personal_tax_calc
            /\ result' = Some(call.ret)
            /\ crossover_age' = None
            /\ tax_calc' = None
            /\ UNCHANGED <<inputs, summary, payment, monthly, effective_rate,
                           sensitivity, matrix, returned, summary_lump,
                           summary_annuity>>

FindCrossoverAge ==
    /\ op = "idle"
    /\ \E min_age \in StartAges, max_age \in StartAges :
        /\ op' = "find_crossover_age"
        /\ args' = [min_age |-> min_age, max_age |-> max_age]
        /\ crossover_age' = find_crossover_age(inputs, min_age, max_age)
        /\ result' = None
        /\ provident_tax_calc' = None
        /\ personal_tax_calc' = None
        /\ tax_calc' = None
        /\ UNCHANGED <<inputs, summary, payment, monthly, effective_rate,
                       sensitivity, matrix, returned, summary_lump,
                       summary_annuity>>

Discard ==
    /\ op # "idle"
    /\ op' = "idle"
    /\ args' = NoArgs
    /\ Cleared
    /\ UNCHANGED inputs

Next == CalculateComparison \/ FindCrossoverAge \/ Discard

Spec == Init /\ [][Next]_vars

(***************************************************************************)
(* The two tax rules called directly, on arguments of the caller's choice. *)
(***************************************************************************)
Balances == {Q(0, 1), Q(1, 1), Q(5, 2), Q(4, 1)}

Bases == {Q(0, 1), Q(2, 1), Q(3, 1)}

DefaultInputs ==
    [current_age |-> AnnuityMinAge - 2,
     retirement_age |-> AnnuityMinAge,
     life_expectancy |-> AnnuityMinAge + 2,
     annual_contribution |-> Q(2, 1),
     annual_cap |-> Q(1, 1),
     provident_expected_return |-> Q(7, 4),
     personal_expected_return |-> Q(2, 1),
     inflation_rate |-> Q(1, 4),
     provident_mgmt_fee |-> Q(1, 4),
     personal_mgmt_fee |-> Q(0, 1),
     capital_gains_tax |-> Q(1, 2),
     withdrawal_mode |-> "annuity"]

InitTax ==
    /\ inputs = DefaultInputs
    /\ op = "idle"
    /\ args = NoArgs
    /\ tax_calc = None
    /\ provident_tax_calc = None
    /\ personal_tax_calc = None
    /\ result = None
    /\ crossover_age = None
    /\ summary = None
    /\ payment = None
    /\ monthly = None
    /\ effective_rate = None
    /\ sensitivity = None
    /\ matrix = None
    /\ returned = None
    /\ summary_lump = None
    /\ summary_annuity = None

CalculateProvidentTax ==
    /\ op = "idle"
    /\ \E gross_balance \in Balances, total_contributions \in Bases,
          inflation_adjusted_contributions \in Bases, capital_gains_tax \in TaxRates,
          withdrawal_mode \in WithdrawalModes, age_at_withdrawal \in RetirementAges :
        /\ op' = "calculate_provident_tax"
        /\ args' = [gross_balance |-> gross_balance,
                    total_contributions |-> total_contributions,
                    inflation_adjusted_contributions |-> inflation_adjusted_contributions,
                    capital_gains_tax |-> capital_gains_tax,
                    withdrawal_mode |-> withdrawal_mode,
                    age_at_withdrawal |-> age_at_withdrawal]
        /\ tax_calc' = Some(calculate_provident_tax(
                gross_balance, total_contributions, inflation_adjusted_contributions,
                capital_gains_tax, withdrawal_mode, age_at_withdrawal))
        /\ UNCHANGED <<inputs, provident_tax_calc, personal_tax_calc, result,
                       crossover_age, summary, payment, monthly, effective_rate,
                       sensitivity, matrix, returned, summary_lump,
                       summary_annuity>>

CalculatePersonalTax ==
    /\ op = "idle"
    /\ \E gross_balance \in Balances, total_contributions \in Bases,
          capital_gains_tax \in TaxRates :
        /\ op' = "calculate_personal_tax"
        /\ args' = [gross_balance |-> gross_balance,
                    total_contributions |-> total_contributions,
                    capital_gains_tax |-> capital_gains_tax]
        /\ tax_calc' = Some(calculate_personal_tax(
                gross_balance, total_contributions, capital_gains_tax))
        /\ UNCHANGED <<inputs, provident_tax_calc, personal_tax_calc, result,
                       crossover_age, summary, payment, monthly, effective_rate,
                       sensitivity, matrix, returned, summary_lump,
                       summary_annuity>>

\* the property is read from the TaxCalculation a tax function has just returned
ReadEffectiveTaxRate ==
    /\ op \in {"calculate_provident_tax", "calculate_personal_tax"}
    /\ op' = "effective_tax_rate"
    /\ effective_rate' = Some(effective_tax_rate(Get(tax_calc)))
    /\ UNCHANGED <<inputs, args, tax_calc, provident_tax_calc,
                   personal_tax_calc, result, crossover_age, summary, payment,
                   monthly, sensitivity, matrix, returned, summary_lump,
                   summary_annuity>>

NextTax ==
    CalculateProvidentTax \/ CalculatePersonalTax \/ ReadEffectiveTaxRate \/ Discard

SpecTax == InitTax /\ [][NextTax]_vars

(***************************************************************************)
(* run_full_comparison over every scan range, on a set of inputs in which  *)
(* the Provident Fund wins at some starting ages and loses at others.      *)
(***************************************************************************)
SummaryInputs ==
    [current_age : {AnnuityMinAge - 2, AnnuityMinAge - 1},
     retirement_age : {AnnuityMinAge, AnnuityMinAge + 1},
     life_expectancy : {AnnuityMinAge + 2},
     annual_contribution : {Q(2, 1)},
     annual_cap : {Q(1, 1)},
     provident_expected_return : {Q(7, 4)},
     personal_expected_return : {Q(7, 4), Q(2, 1)},
     inflation_rate : InflationRates,
     provident_mgmt_fee : MgmtFees,
     personal_mgmt_fee : {Q(0, 1)},
     capital_gains_tax : {Q(1, 2)},
     withdrawal_mode : WithdrawalModes]

InitSummary ==
    /\ inputs \in SummaryInputs
    /\ op = "idle"
    /\ args = NoArgs
    /\ tax_calc = None
    /\ provident_tax_calc = None
    /\ personal_tax_calc = None
    /\ result = None
    /\ crossover_age = None
    /\ summary = None
    /\ payment = None
    /\ monthly = None
    /\ effective_rate = None
    /\ sensitivity = None
    /\ matrix = None
    /\ returned = None
    /\ summary_lump = None
    /\ summary_annuity = None

RunFullComparison ==
    /\ op = "idle"
    /\ \E min_age \in StartAges, max_age \in StartAges :
        /\ op' = "run_full_comparison"
        /\ args' = [min_age |-> min_age, max_age |-> max_age]
        /\ summary' = Some(run_full_comparison(inputs, min_age, max_age))
        /\ UNCHANGED <<inputs, tax_calc, provident_tax_calc, personal_tax_calc,
                       result, crossover_age, payment, monthly, effective_rate,
                       sensitivity, matrix, returned, summary_lump,
                       summary_annuity>>

NextSummary == RunFullComparison \/ Discard

SpecSummary == InitSummary /\ [][NextSummary]_vars

(***************************************************************************)
(* Construction of ProvidentInputs from field values of the caller's       *)
(* choice, followed by comparisons run on the constructed value.           *)
(***************************************************************************)
RawFields ==
    [current_age : {AnnuityMinAge - 2, AnnuityMinAge},
     retirement_age : {AnnuityMinAge - 1, AnnuityMinAge},
     life_expectancy : {AnnuityMinAge + 2},
     annual_contribution : {Q(-2, 1), Q(2, 1)},
     annual_cap : {Q(1, 1)},
     provident_expected_return : {Q(7, 4)},
     personal_expected_return : {Q(2, 1)},
     inflation_rate : {Q(-1, 4), Q(1, 4)},
     provident_mgmt_fee : {Q(-1, 4), Q(1, 4)},
     personal_mgmt_fee : {Q(0, 1)},
     capital_gains_tax : {Q(-1, 2), Q(1, 2)},
     withdrawal_mode : {"lump_sum"}]

ConstructInputs ==
    /\ op = "idle"
    /\ \E fields \in RawFields :
        /\ op' = "ProvidentInputs"
        /\ args' = fields
        /\ inputs' = ProvidentInputs(fields)
        /\ UNCHANGED <<tax_calc, provident_tax_calc, personal_tax_calc, result,
                       crossover_age, summary, payment, monthly, effective_rate,
                       sensitivity, matrix, returned, summary_lump,
                       summary_annuity>>

NextConstruct == ConstructInputs \/ CalculateComparison \/ Discard

SpecConstruct == InitTax /\ [][NextConstruct]_vars

(***************************************************************************)
(* Monthly withdrawals: direct calls of calculate_monthly_withdrawal and   *)
(* the monthly comparison of the two accounts.                             *)
(***************************************************************************)
\* longest withdrawal horizon explored, in years of 12 monthly payments
MaxWithdrawalYears == 1

WithdrawalBalances == {Q(-1, 1), Q(0, 1), Q(1, 1), Q(5, 2), Q(4, 1)}

\* annual returns during withdrawal: monthly rates of 0 and 1
WithdrawalReturns == {Q(0, 1), Q(12, 1)}

AllWithdrawalInputs ==
    [current_age : {AnnuityMinAge - 3, AnnuityMinAge - 2},
     retirement_age : {AnnuityMinAge - 1, AnnuityMinAge},
     life_expectancy : (AnnuityMinAge - 1)..(AnnuityMinAge + MaxWithdrawalYears),
     annual_contribution : Contributions,
     annual_cap : {Q(1, 1)},
     provident_expected_return : ProvidentReturns,
     personal_expected_return : {Q(0, 1), Q(2, 1)},
     inflation_rate : {Q(0, 1)},
     provident_mgmt_fee : MgmtFees,
     personal_mgmt_fee : MgmtFees,
     capital_gains_tax : TaxRates,
     withdrawal_mode : WithdrawalModes]

\* every inputs value whose withdrawal horizon is within MaxWithdrawalYears
WithdrawalInputs ==
    {in \in AllWithdrawalInputs :
        in.life_expectancy - in.retirement_age <= MaxWithdrawalYears}

InitWithdrawal ==
    /\ inputs \in WithdrawalInputs
    /\ op = "idle"
    /\ args = NoArgs
    /\ tax_calc = None
    /\ provident_tax_calc = None
    /\ personal_tax_calc = None
    /\ result = None
    /\ crossover_age = None
    /\ summary = None
    /\ payment = None
    /\ monthly = None
    /\ effective_rate = None
    /\ sensitivity = None
    /\ matrix = None
    /\ returned = None
    /\ summary_lump = None
    /\ summary_annuity = None

CalculateMonthlyWithdrawal ==
    /\ op = "idle"
    /\ \E balance \in WithdrawalBalances,
          withdrawal_years \in (-1)..MaxWithdrawalYears,
          annual_return_during_withdrawal \in WithdrawalReturns :
        /\ op' = "calculate_monthly_withdrawal"
        /\ args' = [balance |-> balance,
                    withdrawal_years |-> withdrawal_years,
                    annual_return_during_withdrawal |-> annual_return_during_withdrawal]
        /\ payment' = Some(calculate_monthly_withdrawal(
                balance, withdrawal_years, annual_return_during_withdrawal))
        /\ UNCHANGED <<inputs, tax_calc, provident_tax_calc, personal_tax_calc,
                       result, crossover_age, summary, monthly, effective_rate,
                       sensitivity, matrix, returned, summary_lump,
                       summary_annuity>>

CalculateMonthlyWithdrawalComparison ==
    /\ op = "idle"
    /\ op' = "calculate_monthly_withdrawal_comparison"
    /\ args' = NoArgs
    /\ monthly' = Some(calculate_monthly_withdrawal_comparison(inputs))
    /\ UNCHANGED <<inputs, tax_calc, provident_tax_calc, personal_tax_calc,
                   result, crossover_age, summary, payment, effective_rate,
                   sensitivity, matrix, returned, summary_lump,
                   summary_annuity>>

NextWithdrawal ==
    CalculateMonthlyWithdrawal \/ CalculateMonthlyWithdrawalComparison \/ Discard

SpecWithdrawal == InitWithdrawal /\ [][NextWithdrawal]_vars

(***************************************************************************)
(* Every engine function called on one inputs value, the sensitivity       *)
(* analysis and matrix included.  find_crossover_age is called there with  *)
(* its default range 18..59, so the retirement ages are early ones: the    *)
(* investment horizons stay within a few years.                            *)
(***************************************************************************)
FrameInputs ==
    [current_age : {DefaultMinAge},
     retirement_age : {DefaultMinAge + 2, DefaultMinAge + 3},
     life_expectancy : {DefaultMinAge + 4},
     annual_contribution : {Q(2, 1)},
     annual_cap : {Q(1, 1)},
     provident_expected_return : {Q(7, 4)},
     personal_expected_return : {Q(2, 1)},
     inflation_rate : {Q(1, 4)},
     provident_mgmt_fee : MgmtFees,
     personal_mgmt_fee : {Q(0, 1)},
     capital_gains_tax : {Q(1, 2)},
     withdrawal_mode : WithdrawalModes]

\* the lists a caller passes: None for the defaults, or a list of its own
ReturnRateLists == {None, Some(<<Q(0, 1), Q(7, 4)>>)}

InflationRateLists == {None, Some(<<Q(0, 1)>>), Some(<<Q(1, 4), Q(0, 1)>>)}

InitFrame ==
    /\ inputs \in FrameInputs
    /\ op = "idle"
    /\ args = NoArgs
    /\ tax_calc = None
    /\ provident_tax_calc = None
    /\ personal_tax_calc = None
    /\ result = None
    /\ crossover_age = None
    /\ summary = None
    /\ payment = None
    /\ monthly = None
    /\ effective_rate = None
    /\ sensitivity = None
    /\ matrix = None
    /\ returned = None
    /\ summary_lump = None
    /\ summary_annuity = None

\* mutant: the rates under test are written into base_inputs itself
GenerateSensitivityAnalysis_InPlace ==
    /\ op = "idle"
    /\ \E return_rates \in ReturnRateLists, inflation_rates \in InflationRateLists :
        /\ op' = "generate_sensitivity_analysis"
        /\ args' = [return_rates |-> return_rates, inflation_rates |-> inflation_rates]
        /\ sensitivity' = Some(generate_sensitivity_analysis(
                                   inputs, return_rates, inflation_rates))
        /\ inputs' = ModifiedInputs(inputs, Q(0, 1), Q(0, 1))
        /\ UNCHANGED <<tax_calc, provident_tax_calc, personal_tax_calc, result,
                       crossover_age, summary, payment, monthly, effective_rate,
                       matrix, returned, summary_lump, summary_annuity>>

GenerateSensitivityAnalysis ==
    /\ op = "idle"
    /\ \E return_rates \in ReturnRateLists, inflation_rates \in InflationRateLists :
        /\ op' = "generate_sensitivity_analysis"
        /\ args' = [return_rates |-> return_rates, inflation_rates |-> inflation_rates]
        /\ sensitivity' = Some(generate_sensitivity_analysis(
                                   inputs, return_rates, inflation_rates))
        /\ UNCHANGED <<inputs, tax_calc, provident_tax_calc, personal_tax_calc,
                       result, crossover_age, summary, payment, monthly,
                       effective_rate, matrix, returned, summary_lump,
                       summary_annuity>>

GenerateSensitivityMatrix ==
    /\ op = "idle"
    /\ \E return_rates \in ReturnRateLists, inflation_rates \in InflationRateLists :
        /\ op' = "generate_sensitivity_matrix"
        /\ args' = [return_rates |-> return_rates, inflation_rates |-> inflation_rates]
        /\ matrix' = Some(generate_sensitivity_matrix(
                              inputs, return_rates, inflation_rates))
        /\ UNCHANGED <<inputs, tax_calc, provident_tax_calc, personal_tax_calc,
                       result, crossover_age, summary, payment, monthly,
                       effective_rate, sensitivity, returned, summary_lump,
                       summary_annuity>>

NextFrame ==
    \/ CalculateComparison
    \/ FindCrossoverAge
    \/ RunFullComparison
    \/ GenerateSensitivityAnalysis
    \/ GenerateSensitivityMatrix
    \/ CalculateMonthlyWithdrawalComparison
    \/ Discard

SpecFrame == InitFrame /\ [][NextFrame]_vars

(***************************************************************************)
(* Direct calls of the two formula functions, on arguments of the caller's *)
(* choice.                                                                 *)
(***************************************************************************)
FormulaAmounts == {Q(-1, 1), Q(0, 1), Q(1, 1), Q(2, 1)}

FormulaRates == {Q(-1, 1), Q(-1, 2), Q(0, 1), Q(1, 4), Q(17, 16), Q(7, 4)}

FormulaYears == (-1)..(MaxYears + 1)

CalculateFutureValue ==
    /\ op = "idle"
    /\ \E annual_contribution \in FormulaAmounts, annual_return \in FormulaRates,
          years \in FormulaYears :
        /\ op' = "calculate_future_value"
        /\ args' = [annual_contribution |-> annual_contribution,
                    annual_return |-> annual_return,
                    years |-> years]
        /\ returned' = Some(calculate_future_value(annual_contribution, annual_return, years))
        /\ UNCHANGED <<inputs, tax_calc, provident_tax_calc, personal_tax_calc,
                       result, crossover_age, summary, payment, monthly,
                       effective_rate, sensitivity, matrix, summary_lump,
                       summary_annuity>>

CalculateInflationAdjustedContributions ==
    /\ op = "idle"
    /\ \E annual_contribution \in FormulaAmounts, inflation_rate \in FormulaRates,
          years \in FormulaYears :
        /\ op' = "calculate_inflation_adjusted_contributions"
        /\ args' = [annual_contribution |-> annual_contribution,
                    inflation_rate |-> inflation_rate,
                    years |-> years]
        /\ returned' = Some(calculate_inflation_adjusted_contributions(
                                annual_contribution, inflation_rate, years))
        /\ UNCHANGED <<inputs, tax_calc, provident_tax_calc, personal_tax_calc,
                       result, crossover_age, summary, payment, monthly,
                       effective_rate, sensitivity, matrix, summary_lump,
                       summary_annuity>>

NextFormula == CalculateFutureValue \/ CalculateInflationAdjustedContributions \/ Discard

SpecFormula == InitTax /\ [][NextFormula]_vars

(***************************************************************************)
(* app.py: the same inputs run twice, once forced to lump_sum and once to  *)
(* annuity, next to the run in the caller's own mode.                      *)
(***************************************************************************)
lump_sum_inputs(in) ==
    ProvidentInputs(
        [current_age |-> in.current_age,
         retirement_age |-> in.retirement_age,
         life_expectancy |-> in.life_expectancy,
         annual_contribution |-> in.annual_contribution,
         annual_cap |-> in.annual_cap,
         provident_expected_return |-> in.provident_expected_return,
         personal_expected_return |-> in.personal_expected_return,
         inflation_rate |-> in.inflation_rate,
         provident_mgmt_fee |-> in.provident_mgmt_fee,
         personal_mgmt_fee |-> in.personal_mgmt_fee,
         capital_gains_tax |-> in.capital_gains_tax,
         withdrawal_mode |-> "lump_sum"])

annuity_inputs(in) ==
    ProvidentInputs(
        [current_age |-> in.current_age,
         retirement_age |-> in.retirement_age,
         life_expectancy |-> in.life_expectancy,
         annual_contribution |-> in.annual_contribution,
         annual_cap |-> in.annual_cap,
         provident_expected_return |-> in.provident_expected_return,
         personal_expected_return |-> in.personal_expected_return,
         inflation_rate |-> in.inflation_rate,
         provident_mgmt_fee |-> in.provident_mgmt_fee,
         personal_mgmt_fee |-> in.personal_mgmt_fee,
         capital_gains_tax |-> in.capital_gains_tax,
         withdrawal_mode |-> "annuity"])

\* scan bounds of the three runs: up to MaxYears years before the threshold age
ModeAges == (AnnuityMinAge - MaxYears)..AnnuityMinAge

ModeInputs ==
    [current_age : {AnnuityMinAge - MaxYears},
     retirement_age : {AnnuityMinAge - 1, AnnuityMinAge},
     life_expectancy : {AnnuityMinAge + 2},
     annual_contribution : {Q(2, 1)},
     annual_cap : {Q(1, 1)},
     provident_expected_return : {Q(7, 4)},
     personal_expected_return : {Q(7, 4), Q(2, 1)},
     inflation_rate : InflationRates,
     provident_mgmt_fee : MgmtFees,
     personal_mgmt_fee : {Q(0, 1)},
     capital_gains_tax : TaxRates,
     withdrawal_mode : WithdrawalModes]

InitModes ==
    /\ inputs \in ModeInputs
    /\ op = "idle"
    /\ args = NoArgs
    /\ tax_calc = None
    /\ provident_tax_calc = None
    /\ personal_tax_calc = None
    /\ result = None
    /\ crossover_age = None
    /\ summary = None
    /\ payment = None
    /\ monthly = None
    /\ effective_rate = None
    /\ sensitivity = None
    /\ matrix = None
    /\ returned = None
    /\ summary_lump = None
    /\ summary_annuity = None

\* summary, summary_lump and summary_annuity of app.py, over one scan range
RunModeComparisons ==
    /\ op = "idle"
    /\ \E min_age \in ModeAges, max_age \in ModeAges :
        /\ op' = "run_mode_comparisons"
        /\ args' = [min_age |-> min_age, max_age |-> max_age]
        /\ summary' = Some(run_full_comparison(inputs, min_age, max_age))
        /\ summary_lump' =
               Some(run_full_comparison(lump_sum_inputs(inputs), min_age, max_age))
        /\ summary_annuity' =
               Some(run_full_comparison(annuity_inputs(inputs), min_age, max_age))
        /\ UNCHANGED <<inputs, tax_calc, provident_tax_calc, personal_tax_calc,
                       result, crossover_age, payment, monthly, effective_rate,
                       sensitivity, matrix, returned>>

NextModes == RunModeComparisons \/ Discard

SpecModes == InitModes /\ [][NextModes]_vars

(***************************************************************************)
(* Properties.                                                             *)
(***************************************************************************)
SetMin(S) == CHOOSE x \in S : \A y \in S : x <= y

SetMax(S) == CHOOSE x \in S : \A y \in S : x >= y

\* the starting ages of min_age..max_age at which the Provident Fund wins
WinningAges(in, min_age, max_age) ==
    {a \in min_age..max_age :
        provident_wins(calculate_comparison_for_starting_age(a, in))}

Positive(x) == x.d > 0 /\ x.n > 0

\* C1: every TaxCalculation computed by calculate_provident_tax and
\* calculate_personal_tax, and both accounts of every AgeComparisonResult
\* (the all-zero one included), have net = gross - tax, i.e. net + tax = gross.
C1_NetIsGrossMinusTax ==
    /\ provident_tax_calc # None =>
         RatAdd(Get(provident_tax_calc).net_balance, Get(provident_tax_calc).tax_amount)
             = Get(provident_tax_calc).gross_balance
    /\ personal_tax_calc # None =>
         RatAdd(Get(personal_tax_calc).net_balance, Get(personal_tax_calc).tax_amount)
             = Get(personal_tax_calc).gross_balance
    /\ result # None =>
         /\ RatAdd(Get(result).provident_net, Get(result).provident_tax)
                = Get(result).provident_gross
         /\ RatAdd(Get(result).personal_net, Get(result).personal_tax)
                = Get(result).personal_gross

\* a comparison in which the annuity exemption applies although the fund has a
\* taxable real gain, and the personal account pays tax
C1_Witness ==
    /\ result # None
    /\ provident_tax_calc # None
    /\ inputs.withdrawal_mode = "annuity"
    /\ inputs.retirement_age >= AnnuityMinAge
    /\ Positive(inputs.capital_gains_tax)
    /\ Positive(Get(provident_tax_calc).real_gain)
    /\ Positive(Get(result).personal_tax)

\* C2: calculate_provident_tax in annuity mode at an age >= 60 returns tax 0 and
\* net = gross, whatever the balance, the contributions, the basis and the rate.
C2_AnnuityExempt ==
    (/\ op = "calculate_provident_tax"
     /\ args.withdrawal_mode = "annuity"
     /\ args.age_at_withdrawal >= AnnuityMinAge)
    => /\ Get(tax_calc).tax_amount = Zero
       /\ Get(tax_calc).net_balance = args.gross_balance

\* an exempt call exactly at the threshold age with a positive real gain and rate
C2_Witness ==
    /\ op = "calculate_provident_tax"
    /\ args.withdrawal_mode = "annuity"
    /\ args.age_at_withdrawal = AnnuityMinAge
    /\ Positive(args.capital_gains_tax)
    /\ RatLess(args.inflation_adjusted_contributions, args.gross_balance)

\* C3: in lump-sum mode, or in annuity mode below age 60, the provident tax is
\* rate x max(gross - inflation-adjusted contributions, 0) and is never negative.
C3_LumpSumTax ==
    (/\ op = "calculate_provident_tax"
     /\ (args.withdrawal_mode = "lump_sum" \/ args.age_at_withdrawal < AnnuityMinAge))
    => /\ Get(tax_calc).tax_amount =
            (IF RatLess(args.inflation_adjusted_contributions, args.gross_balance)
             THEN RatMul(args.capital_gains_tax,
                         RatSub(args.gross_balance, args.inflation_adjusted_contributions))
             ELSE Zero)
       /\ RatLeq(Zero, Get(tax_calc).tax_amount)

\* an annuity withdrawal below the minimum age that is taxed on a real gain which
\* differs from the nominal gain
C3_Witness ==
    /\ op = "calculate_provident_tax"
    /\ args.withdrawal_mode = "annuity"
    /\ args.age_at_withdrawal < AnnuityMinAge
    /\ Positive(Get(tax_calc).tax_amount)
    /\ args.total_contributions # args.inflation_adjusted_contributions

\* C4: in every comparison the personal account's tax is
\* rate x max(personal_gross - personal_contributions, 0), whatever the withdrawal
\* mode and the retirement age, and is 0 when the balance does not exceed the
\* contributions.
C4_PersonalAlwaysTaxed ==
    result # None =>
        LET r == Get(result)
        IN  /\ r.personal_tax =
                 (IF RatLess(r.personal_contributions, r.personal_gross)
                  THEN RatMul(inputs.capital_gains_tax,
                              RatSub(r.personal_gross, r.personal_contributions))
                  ELSE Zero)
            /\ RatLeq(r.personal_gross, r.personal_contributions)
                 => r.personal_tax = Zero

\* the personal account is taxed while the fund is exempt (annuity at 60 or later)
C4_Witness ==
    /\ result # None
    /\ inputs.withdrawal_mode = "annuity"
    /\ inputs.retirement_age >= AnnuityMinAge
    /\ Positive(Get(result).personal_tax)
    /\ Get(result).provident_tax = Zero
    /\ RatLess(Get(result).provident_contributions, Get(result).provident_gross)

C5_EmptyRangeWitness ==
    /\ op = "find_crossover_age"
    /\ args.min_age > args.max_age
    /\ crossover_age = None

\* C6: find_crossover_age returns the oldest starting age of min_age..max_age at
\* which the Provident Fund wins (the scan from max_age down that its docstring
\* describes).
C6_OldestWinningAge ==
    op = "find_crossover_age" =>
        LET W == WinningAges(inputs, args.min_age, args.max_age)
        IN  crossover_age = (IF W = {} THEN None ELSE Some(SetMax(W)))

\* C7: whenever a crossover age c is reported, the Provident Fund wins at every
\* starting age a with min_age <= a <= c.
C7_WinsAtOrBelowCrossover ==
    (op = "find_crossover_age" /\ crossover_age # None) =>
        \A a \in args.min_age..Get(crossover_age) :
            provident_wins(calculate_comparison_for_starting_age(a, inputs))

\* C8: a comparison for a starting age >= the retirement age returns
\* investment_years = 0 and every amount 0, so it is a tie and no win; and a
\* reported crossover age is never such an age.
C8_ZeroDuration ==
    /\ (op = "calculate_comparison_for_starting_age"
        /\ args.starting_age >= inputs.retirement_age)
       => LET r == Get(result)
          IN  /\ r.starting_age = args.starting_age
              /\ r.investment_years = 0
              /\ \A f \in {"provident_gross", "provident_contributions",
                           "provident_tax", "provident_net", "personal_gross",
                           "personal_contributions", "personal_tax", "personal_net"} :
                     r[f] = Zero
              /\ winner(r) = "Tie"
              /\ ~provident_wins(r)
    /\ (op = "find_crossover_age" /\ crossover_age # None)
       => Get(crossover_age) < inputs.retirement_age

\* a comparison for a starting age beyond the retirement age, with money put in
C8_Witness ==
    /\ op = "calculate_comparison_for_starting_age"
    /\ args.starting_age > inputs.retirement_age
    /\ Positive(inputs.annual_contribution)
    /\ result # None

\* C9: difference = provident_net - personal_net; the winner is "Provident Fund"
\* iff provident_net > personal_net, "Personal Account" iff it is smaller, "Tie"
\* iff the two are equal; provident_wins iff the winner is "Provident Fund".
C9_WinnerBySign ==
    result # None =>
        LET r == Get(result)
        IN  /\ RatAdd(difference(r), r.personal_net) = r.provident_net
            /\ winner(r) \in {"Provident Fund", "Personal Account", "Tie"}
            /\ winner(r) = "Provident Fund" <=> RatLess(r.personal_net, r.provident_net)
            /\ winner(r) = "Personal Account" <=> RatLess(r.provident_net, r.personal_net)
            /\ winner(r) = "Tie" <=> r.provident_net = r.personal_net
            /\ provident_wins(r) <=> winner(r) = "Provident Fund"

\* a tie between two non-zero nets
C9_Witness ==
    /\ result # None
    /\ Positive(Get(result).personal_net)
    /\ winner(Get(result)) = "Tie"

\* C10: difference_pct is 100 x (provident_net - personal_net) / personal_net, is
\* 0 when personal_net is 0, and never divides by zero.
C10_DifferencePct ==
    result # None =>
        LET r == Get(result)
            pct == difference_pct(r)
        IN  /\ ~IsError(pct)
            /\ r.personal_net = Zero => pct = Zero
            /\ r.personal_net # Zero =>
                 RatMul(pct, r.personal_net)
                     = RatMul(Hundred, RatSub(r.provident_net, r.personal_net))

\* a comparison result whose personal_net is 0
C10_Witness ==
    /\ result # None
    /\ Get(result).personal_net = Zero
    /\ difference_pct(Get(result)) = Zero

\* a comparison result with a non-zero percentage
C10_NonZeroWitness ==
    /\ result # None
    /\ Get(result).personal_net # Zero
    /\ Positive(difference_pct(Get(result)))

\* C11: run_full_comparison returns one AgeComparisonResult per starting age of
\* min_age..max_age, in ascending order: the i-th entry (counted from 0) has
\* starting_age = min_age + i and equals calculate_comparison_for_starting_age
\* for that age; the list has as many entries as the range has ages.
C11_OneResultPerAge ==
    op = "run_full_comparison" =>
        LET rs == Get(summary).age_results
        IN  /\ Len(rs) = Cardinality(args.min_age..args.max_age)
            /\ \A i \in 1..Len(rs) :
                 /\ rs[i].starting_age = args.min_age + (i - 1)
                 /\ rs[i] = calculate_comparison_for_starting_age(
                                args.min_age + (i - 1), inputs)
            /\ \A a \in args.min_age..args.max_age :
                 Cardinality({i \in 1..Len(rs) : rs[i].starting_age = a}) = 1

\* a summary over a range of at least three ages, ending at max_age
C11_Witness ==
    /\ op = "run_full_comparison"
    /\ args.max_age >= args.min_age + 2
    /\ Get(summary).age_results[Len(Get(summary).age_results)].starting_age
           = args.max_age

\* the invariants the specification gives for an inputs value: start age below
\* the retirement age, and no negative monetary or rate field
ValidInputs(in) ==
    /\ in.current_age < in.retirement_age
    /\ \A f \in {"annual_contribution", "annual_cap", "provident_expected_return",
                 "personal_expected_return", "inflation_rate", "provident_mgmt_fee",
                 "personal_mgmt_fee", "capital_gains_tax"} : in[f].n >= 0

\* C12: construction with a start age >= the retirement age or with a negative
\* monetary or rate field fails, so every inputs value that exists, and every
\* one a comparison is run on, is valid.
C12_InvalidInputsRejected ==
    /\ op = "ProvidentInputs" => ValidInputs(inputs)
    /\ op = "calculate_comparison_for_starting_age" => ValidInputs(inputs)

\* C13: the Provident Fund is never credited more than the annual cap in a year:
\* for every starting age provident_contributions <= annual_cap * investment_years.
C13_ContributionCapped ==
    op = "calculate_comparison_for_starting_age" =>
        RatLeq(Get(result).provident_contributions,
               RatMul(inputs.annual_cap, FromInt(Get(result).investment_years)))

\* management fees as fractions of the balance, from no fee to the whole balance
FeeLevels == {Q(0, 1), Q(1, 4), Q(1, 2), Q(3, 4), Q(1, 1)}

\* C14: with a non-negative contribution and a non-negative gross return and
\* everything else fixed, a higher management fee gives a net return and a gross
\* balance of that account that are no higher (fund and personal account alike).
C14_FeeMonotone ==
    (/\ op = "calculate_comparison_for_starting_age"
     /\ inputs.annual_contribution.n >= 0
     /\ inputs.provident_expected_return.n >= 0
     /\ inputs.personal_expected_return.n >= 0)
    => \A fee \in FeeLevels :
        LET provident_raised == [inputs EXCEPT !.provident_mgmt_fee = fee]
            personal_raised == [inputs EXCEPT !.personal_mgmt_fee = fee]
        IN  /\ RatLeq(inputs.provident_mgmt_fee, fee) =>
                 /\ RatLeq(get_provident_net_return(provident_raised),
                           get_provident_net_return(inputs))
                 /\ RatLeq(calculate_comparison_for_starting_age(
                               args.starting_age, provident_raised).provident_gross,
                           Get(result).provident_gross)
            /\ RatLeq(inputs.personal_mgmt_fee, fee) =>
                 /\ RatLeq(get_personal_net_return(personal_raised),
                           get_personal_net_return(inputs))
                 /\ RatLeq(calculate_comparison_for_starting_age(
                               args.starting_age, personal_raised).personal_gross,
                           Get(result).personal_gross)

\* a fund balance built over several years that a higher fee strictly lowers
C14_Witness ==
    /\ op = "calculate_comparison_for_starting_age"
    /\ Get(result).investment_years >= 2
    /\ Positive(inputs.annual_contribution)
    /\ Positive(inputs.provident_expected_return)
    /\ inputs.provident_mgmt_fee = Q(1, 4)
    /\ RatLess(calculate_comparison_for_starting_age(
                   args.starting_age,
                   [inputs EXCEPT !.provident_mgmt_fee = Q(1, 2)]).provident_gross,
               Get(result).provident_gross)

\* C16 as stated: the effective tax rate is tax_amount / nominal_gain when
\* nominal_gain > 0, and 0 otherwise.
C16_EffectiveRateOnNominalGain ==
    op = "effective_tax_rate" =>
        LET t == Get(tax_calc)
        IN  Get(effective_rate) =
                (IF Positive(t.nominal_gain)
                 THEN RatDiv(t.tax_amount, t.nominal_gain) ELSE Zero)

\* C16, amended: the effective tax rate of a TaxCalculation is
\* tax_amount / gross_balance when gross_balance is not 0, and 0 when it is 0;
\* it never divides by zero.
C16_EffectiveRateOnGross ==
    op = "effective_tax_rate" =>
        LET t == Get(tax_calc)
        IN  /\ ~IsError(Get(effective_rate))
            /\ t.gross_balance # Zero =>
                 Get(effective_rate) = RatDiv(t.tax_amount, t.gross_balance)
            /\ t.gross_balance = Zero => Get(effective_rate) = Zero

\* a taxed balance whose nominal gain differs from the balance
C16_Witness ==
    /\ op = "effective_tax_rate"
    /\ Positive(Get(tax_calc).tax_amount)
    /\ Positive(Get(tax_calc).total_contributions)
    /\ Positive(Get(tax_calc).nominal_gain)
    /\ Positive(Get(effective_rate))

\* the rate of an empty balance
C16_ZeroBalanceWitness ==
    /\ op = "effective_tax_rate"
    /\ Get(tax_calc).gross_balance = Zero
    /\ Get(effective_rate) = Zero

\* the fund's tax of a comparison that has a taxable real gain: waived or charged
FundTaxWaived(starting_age, in) ==
    LET call == ComparisonCall(starting_age, in)
    IN  /\ call.provident_tax_calc # None
        /\ Positive(in.capital_gains_tax)
        /\ Positive(Get(call.provident_tax_calc).real_gain)
        /\ Get(call.provident_tax_calc).tax_amount = Zero

FundTaxCharged(starting_age, in) ==
    LET call == ComparisonCall(starting_age, in)
    IN  /\ call.provident_tax_calc # None
        /\ Positive(Get(call.provident_tax_calc).tax_amount)

\* C17: the minimum age of the tax-free annuity is set per run: for every
\* minimum age m a caller may want, an annuity comparison with this retirement
\* age can be run so that the fund is exempt iff the retirement age is >= m
\* (over two years or more, the shortest horizon on which a gain can build up).
C17_MinAgeOverridable ==
    (/\ op = "calculate_comparison_for_starting_age"
     /\ inputs.withdrawal_mode = "annuity"
     /\ Get(result).investment_years >= 2)
    => \A min_age \in RetirementAges :
         \E in \in EngineInputs :
            /\ in.retirement_age = inputs.retirement_age
            /\ in.withdrawal_mode = "annuity"
            /\ IF inputs.retirement_age >= min_age
               THEN FundTaxWaived(args.starting_age, in)
               ELSE FundTaxCharged(args.starting_age, in)

\* C18: with a contribution of 0, whatever the ages, the rates and the withdrawal
\* mode, both accounts have contributions 0, gross balance 0, tax 0 and net 0,
\* every age is a tie, and there is no crossover age.
C18_ZeroContribution ==
    inputs.annual_contribution = Zero =>
        /\ op = "calculate_comparison_for_starting_age" =>
             LET r == Get(result)
             IN  /\ \A f \in {"provident_contributions", "provident_gross",
                              "provident_tax", "provident_net", "personal_contributions",
                              "personal_gross", "personal_tax", "personal_net"} :
                        r[f] = Zero
                 /\ winner(r) = "Tie"
                 /\ ~provident_wins(r)
        /\ op = "find_crossover_age" => crossover_age = None

\* nothing contributed over several years at returns and a tax rate above 0
C18_Witness ==
    /\ op = "calculate_comparison_for_starting_age"
    /\ inputs.annual_contribution = Zero
    /\ Get(result).investment_years >= 2
    /\ Positive(inputs.provident_expected_return)
    /\ Positive(inputs.personal_expected_return)
    /\ Positive(inputs.capital_gains_tax)

\* a scan over a non-empty range of ages with nothing contributed
C18_ScanWitness ==
    /\ op = "find_crossover_age"
    /\ inputs.annual_contribution = Zero
    /\ args.min_age < inputs.retirement_age
    /\ args.min_age <= args.max_age
    /\ crossover_age = None

RECURSIVE RemainingAfter(_, _, _, _)
\* what is left of `balance` after `months` months, each growing the remainder
\* by (1 + monthly_rate) and then paying `amount` (an error value stays one)
RemainingAfter(balance, monthly_rate, amount, months) ==
    IF months = 0 \/ IsError(balance) THEN balance
    ELSE RemainingAfter(RatSub(RatMul(balance, RatAdd(One, monthly_rate)), amount),
                        monthly_rate, amount, months - 1)

\* C19: for a positive balance and horizon, calculate_monthly_withdrawal returns
\* the level payment that leaves exactly 0 after n = 12 * withdrawal_years
\* months at the monthly rate r = annual return / 12; it is balance / n when
\* r = 0.
C19_LevelPaymentExhausts ==
    (/\ op = "calculate_monthly_withdrawal"
     /\ args.withdrawal_years > 0
     /\ Positive(args.balance))
    => LET r == RatDiv(args.annual_return_during_withdrawal, FromInt(12))
           n == 12 * args.withdrawal_years
       IN  /\ RemainingAfter(args.balance, r, Get(payment), n) = Zero
           /\ r = Zero => Get(payment) = RatDiv(args.balance, FromInt(n))

\* a payment computed by the annuity formula, at a rate other than 0
C19_Witness ==
    /\ op = "calculate_monthly_withdrawal"
    /\ args.withdrawal_years = MaxWithdrawalYears
    /\ args.balance = Q(5, 2)
    /\ Positive(args.annual_return_during_withdrawal)
    /\ RatLess(RatDiv(args.balance, FromInt(12 * args.withdrawal_years)), Get(payment))

\* C20: in the monthly comparison the personal gain ratio is
\* (balance - contributions) / balance, 0 for a balance of 0, and equals
\* personal_gain_ratio; the monthly tax is gross monthly x gain ratio x
\* capital-gains rate, and the net monthly is the gross monthly minus that tax.
C20_MonthlyTaxOnGainPortion ==
    op = "calculate_monthly_withdrawal_comparison" =>
        LET m == Get(monthly)
            gain_ratio == IF m.personal_balance = Zero THEN Zero
                          ELSE RatDiv(RatSub(m.personal_balance, m.personal_contributions),
                                      m.personal_balance)
        IN  /\ personal_gain_ratio(m) = gain_ratio
            /\ m.personal_tax_per_month =
                   RatMul(RatMul(m.personal_gross_monthly, gain_ratio),
                          inputs.capital_gains_tax)
            /\ m.personal_net_monthly =
                   RatSub(m.personal_gross_monthly, m.personal_tax_per_month)

\* a personal account with contributions and a gain, taxed every month
C20_Witness ==
    /\ op = "calculate_monthly_withdrawal_comparison"
    /\ Positive(Get(monthly).personal_contributions)
    /\ Positive(personal_gain_ratio(Get(monthly)))
    /\ Positive(Get(monthly).personal_tax_per_month)
    /\ RatLess(Get(monthly).personal_net_monthly, Get(monthly).personal_gross_monthly)
    /\ RatLess(Zero, Get(monthly).personal_net_monthly)

\* nothing contributed: a balance of 0 and a gain ratio of 0
C20_ZeroBalanceWitness ==
    /\ op = "calculate_monthly_withdrawal_comparison"
    /\ Get(monthly).personal_balance = Zero
    /\ Get(monthly).personal_tax_per_month = Zero

\* C21: in annuity mode the fund's net monthly payment equals its gross monthly
\* payment, and the gross monthly payments of both accounts are
\* calculate_monthly_withdrawal of their balance with one horizon and one
\* payout-phase return.
C21_ProvidentMonthlyUntaxed ==
    (/\ op = "calculate_monthly_withdrawal_comparison"
     /\ inputs.withdrawal_mode = "annuity")
    => LET m == Get(monthly)
       IN  /\ m.provident_net_monthly = m.provident_gross_monthly
           /\ m.provident_gross_monthly =
                  calculate_monthly_withdrawal(m.provident_balance, m.withdrawal_years,
                                               m.withdrawal_return)
           /\ m.personal_gross_monthly =
                  calculate_monthly_withdrawal(m.personal_balance, m.withdrawal_years,
                                               m.withdrawal_return)

\* an annuity whose fund balance holds a gain that a tax rate above 0 would reach
C21_Witness ==
    /\ op = "calculate_monthly_withdrawal_comparison"
    /\ inputs.withdrawal_mode = "annuity"
    /\ Positive(inputs.capital_gains_tax)
    /\ RatLess(Get(monthly).provident_contributions, Get(monthly).provident_balance)
    /\ Get(monthly).provident_balance # Get(monthly).personal_balance
    /\ Positive(Get(monthly).provident_net_monthly)

EngineOps ==
    {"calculate_comparison_for_starting_age", "find_crossover_age",
     "run_full_comparison", "generate_sensitivity_analysis",
     "generate_sensitivity_matrix", "calculate_monthly_withdrawal_comparison"}

\* C22: no engine function changes a field of the inputs value it is given: when
\* any of the six returns, the caller's inputs are what they were before the call
\* (the sensitivity functions evaluate their variations on other values).
C22_InputsNotMutated ==
    [][op' \in EngineOps => inputs' = inputs]_vars

\* a sensitivity analysis that found a crossover age at rates other than the
\* caller's, whose inputs still hold their own rates
C22_Witness ==
    /\ op = "generate_sensitivity_analysis"
    /\ Positive(inputs.inflation_rate)
    /\ \E k \in 1..Len(Get(sensitivity)) :
          /\ Get(sensitivity)[k].return_rate # inputs.provident_expected_return
          /\ Get(sensitivity)[k].inflation_rate # inputs.inflation_rate
          /\ Get(sensitivity)[k].crossover_age # None

RECURSIVE BalanceAfter(_, _, _)
\* B_0 = 0, B_k = B_(k-1) * (1 + r) + c: the balance after k years of deposits
\* made at the end of each year
BalanceAfter(c, r, k) ==
    IF k <= 0 THEN Zero
    ELSE RatAdd(RatMul(BalanceAfter(c, r, k - 1), RatAdd(One, r)), c)

\* C23: calculate_future_value(c, r, n) equals the balance B_n of the
\* year-by-year recurrence B_0 = 0, B_k = B_(k-1) * (1 + r) + c; it is c * n
\* when r = 0 and 0 when n <= 0.
C23_FutureValueIsRecurrence ==
    op = "calculate_future_value" =>
        /\ Get(returned) = BalanceAfter(args.annual_contribution, args.annual_return,
                                        args.years)
        /\ (args.annual_return = Zero /\ args.years > 0) =>
               Get(returned) = RatMul(args.annual_contribution, FromInt(args.years))
        /\ args.years <= 0 => Get(returned) = Zero

\* several years of deposits at a return above 0: the closed form's own branch
C23_Witness ==
    /\ op = "calculate_future_value"
    /\ args.years >= 3
    /\ Positive(args.annual_return)
    /\ Positive(args.annual_contribution)
    /\ RatLess(RatMul(args.annual_contribution, FromInt(args.years)), Get(returned))

\* C24 as stated: with at least one investment year, a contribution above 0
\* and a net-of-fee return above 0, an account's gross balance is strictly
\* greater than its total contributions.
C24_GrossAboveContributions ==
    (/\ op = "calculate_comparison_for_starting_age"
     /\ Get(result).investment_years >= 1
     /\ Positive(inputs.annual_contribution))
    => /\ Positive(get_provident_net_return(inputs)) =>
            RatLess(Get(result).provident_contributions, Get(result).provident_gross)
       /\ Positive(get_personal_net_return(inputs)) =>
            RatLess(Get(result).personal_contributions, Get(result).personal_gross)

\* C24, amended: with a contribution above 0 and a net-of-fee return above 0,
\* an account's gross balance is strictly greater than its total contributions
\* from two investment years on, and equal to them after exactly one year.
C24_GrossAboveContributionsAfterTwoYears ==
    (/\ op = "calculate_comparison_for_starting_age"
     /\ Get(result).investment_years >= 1
     /\ Positive(inputs.annual_contribution))
    => LET r == Get(result)
       IN  /\ Positive(get_provident_net_return(inputs)) =>
                IF r.investment_years >= 2
                THEN RatLess(r.provident_contributions, r.provident_gross)
                ELSE r.provident_gross = r.provident_contributions
           /\ Positive(get_personal_net_return(inputs)) =>
                IF r.investment_years >= 2
                THEN RatLess(r.personal_contributions, r.personal_gross)
                ELSE r.personal_gross = r.personal_contributions

\* two years or more at net returns above 0 for both accounts, fees included
C24_Witness ==
    /\ op = "calculate_comparison_for_starting_age"
    /\ Get(result).investment_years >= 2
    /\ Positive(inputs.annual_contribution)
    /\ Positive(inputs.provident_mgmt_fee)
    /\ Positive(get_provident_net_return(inputs))
    /\ Positive(get_personal_net_return(inputs))
    /\ RatLess(Get(result).provident_contributions, Get(result).provident_gross)

\* exactly one year: the single deposit has earned nothing
C24_OneYearWitness ==
    /\ op = "calculate_comparison_for_starting_age"
    /\ Get(result).investment_years = 1
    /\ Positive(inputs.annual_contribution)
    /\ Positive(get_provident_net_return(inputs))
    /\ Get(result).provident_gross = Get(result).provident_contributions

RECURSIVE InflatedSum(_, _, _, _)
\* sum over the years k..n of the year's contribution c inflated for n - k years
InflatedSum(c, inflation, n, k) ==
    IF k > n THEN Zero
    ELSE RatAdd(RatMul(c, RatPow(RatAdd(One, inflation), n - k)),
                InflatedSum(c, inflation, n, k + 1))

\* C25: the fund's tax basis is the sum of the yearly contributions, the one of
\* year k inflated for (years - k) years; with inflation >= 0 and a contribution
\* >= 0 it is never below the nominal contributions and equals them at inflation
\* 0, so the real gain never exceeds the nominal gain, and a taxed fund pays no
\* more than the personal-account rule charges on the same balance,
\* contributions and rate.
C25_InflationAdjustedBasis ==
    (/\ op = "calculate_comparison_for_starting_age"
     /\ provident_tax_calc # None
     /\ inputs.inflation_rate.n >= 0
     /\ inputs.annual_contribution.n >= 0)
    => LET t == Get(provident_tax_calc)
           r == Get(result)
       IN  /\ t.inflation_adjusted_contributions =
                  InflatedSum(inputs.annual_contribution, inputs.inflation_rate,
                              r.investment_years, 1)
           /\ RatLeq(t.total_contributions, t.inflation_adjusted_contributions)
           /\ inputs.inflation_rate = Zero =>
                  t.inflation_adjusted_contributions = t.total_contributions
           /\ RatLeq(t.real_gain, t.nominal_gain)
           /\ (inputs.withdrawal_mode = "lump_sum"
               \/ inputs.retirement_age < AnnuityMinAge) =>
                  RatLeq(t.tax_amount,
                         calculate_personal_tax(t.gross_balance, t.total_contributions,
                                                inputs.capital_gains_tax).tax_amount)

\* a lump sum taxed on a real gain that inflation has made smaller than the
\* nominal gain
C25_Witness ==
    /\ op = "calculate_comparison_for_starting_age"
    /\ provident_tax_calc # None
    /\ inputs.withdrawal_mode = "lump_sum"
    /\ Positive(inputs.inflation_rate)
    /\ Get(result).investment_years >= 3
    /\ Positive(Get(provident_tax_calc).tax_amount)
    /\ RatLess(Get(provident_tax_calc).real_gain, Get(provident_tax_calc).nominal_gain)
    /\ RatLess(Get(provident_tax_calc).total_contributions,
               Get(provident_tax_calc).inflation_adjusted_contributions)

\* C26: the lump-sum run and the annuity run of the same inputs agree, at every
\* starting age, on the fund's gross balance and contributions and on every
\* personal-account figure; the annuity's provident_net is >= the lump sum's;
\* below a retirement age of 60 all the figures of the two runs are equal.
C26_ModesDifferOnlyInFundTax ==
    op = "run_mode_comparisons" =>
        LET lump == Get(summary_lump).age_results
            annuity == Get(summary_annuity).age_results
        IN  /\ Len(lump) = Len(annuity)
            /\ \A i \in 1..Len(lump) :
                 /\ \A f \in {"starting_age", "retirement_age", "investment_years",
                              "provident_gross", "provident_contributions",
                              "personal_gross", "personal_contributions",
                              "personal_tax", "personal_net"} :
                        lump[i][f] = annuity[i][f]
                 /\ RatLeq(lump[i].provident_net, annuity[i].provident_net)
                 /\ inputs.retirement_age < AnnuityMinAge =>
                        /\ lump[i].provident_tax = annuity[i].provident_tax
                        /\ lump[i].provident_net = annuity[i].provident_net

\* at 60 the two runs differ in the fund's tax at some age; every other figure
\* is shared
C26_Witness ==
    /\ op = "run_mode_comparisons"
    /\ inputs.retirement_age >= AnnuityMinAge
    /\ \E i \in 1..Len(Get(summary_lump).age_results) :
          /\ Positive(Get(summary_lump).age_results[i].provident_tax)
          /\ Get(summary_annuity).age_results[i].provident_tax = Zero
          /\ Positive(Get(summary_annuity).age_results[i].personal_tax)

\* below 60 both runs tax the fund, by the same amount above 0
C26_BelowThresholdWitness ==
    /\ op = "run_mode_comparisons"
    /\ inputs.retirement_age < AnnuityMinAge
    /\ \E i \in 1..Len(Get(summary_lump).age_results) :
          /\ Positive(Get(summary_annuity).age_results[i].provident_tax)
          /\ Get(summary_lump).age_results[i].provident_tax
                 = Get(summary_annuity).age_results[i].provident_tax

\* C27: in the monthly comparison, for inputs whose contribution, returns,
\* fees and tax rate are all >= 0, the personal account's monthly tax is never
\* negative and its net monthly payment never exceeds the gross one.
C27_MonthlyTaxNonNegative ==
    (/\ op = "calculate_monthly_withdrawal_comparison"
     /\ \A f \in {"annual_contribution", "provident_expected_return",
                  "personal_expected_return", "provident_mgmt_fee",
                  "personal_mgmt_fee", "capital_gains_tax"} : inputs[f].n >= 0)
    => /\ RatLeq(Zero, Get(monthly).personal_tax_per_month)
       /\ RatLeq(Get(monthly).personal_net_monthly, Get(monthly).personal_gross_monthly)

\* C28: the monthly comparison does not read withdrawal_mode: the same inputs
\* forced to lump_sum and forced to annuity give the same MonthlyWithdrawalResult,
\* and the fund's net monthly payment equals the gross one in lump_sum mode and
\* below a retirement age of 60 as well.
C28_MonthlyIgnoresMode ==
    op = "calculate_monthly_withdrawal_comparison" =>
        /\ Get(monthly) = calculate_monthly_withdrawal_comparison(lump_sum_inputs(inputs))
        /\ Get(monthly) = calculate_monthly_withdrawal_comparison(annuity_inputs(inputs))
        /\ Get(monthly).provident_net_monthly = Get(monthly).provident_gross_monthly

\* a lump sum below 60, which the lump-sum rule taxes, paid out monthly untaxed
C28_Witness ==
    /\ op = "calculate_monthly_withdrawal_comparison"
    /\ inputs.withdrawal_mode = "lump_sum"
    /\ inputs.retirement_age < AnnuityMinAge
    /\ Positive(inputs.capital_gains_tax)
    /\ RatLess(Get(monthly).provident_contributions, Get(monthly).provident_balance)
    /\ Positive(calculate_comparison_for_starting_age(inputs.current_age,
                                                      inputs).provident_tax)
    /\ Positive(Get(monthly).provident_net_monthly)

\* C29: the monthly comparison's horizon is life_expectancy - retirement_age when
\* that is positive and 1 year otherwise, so withdrawal_years >= 1 and both gross
\* payments are computed; calculate_monthly_withdrawal returns 0 whenever the
\* balance is <= 0 or the horizon is <= 0, and never divides by zero months.
C29_HorizonAtLeastOneYear ==
    /\ op = "calculate_monthly_withdrawal_comparison" =>
        /\ Get(monthly).withdrawal_years =
               IF inputs.life_expectancy - inputs.retirement_age > 0
               THEN inputs.life_expectancy - inputs.retirement_age
               ELSE 1
        /\ Get(monthly).withdrawal_years >= 1
        /\ ~IsError(Get(monthly).provident_gross_monthly)
        /\ ~IsError(Get(monthly).personal_gross_monthly)
        /\ RatLess(Zero, Get(monthly).provident_balance) =>
               RatLess(Zero, Get(monthly).provident_gross_monthly)
    /\ op = "calculate_monthly_withdrawal" =>
        /\ ~IsError(Get(payment))
        /\ (args.withdrawal_years <= 0 \/ RatLeq(args.balance, Zero)) =>
               Get(payment) = Zero

\* a life expectancy at or below the retirement age, paid out over the forced year
C29_Witness ==
    /\ op = "calculate_monthly_withdrawal_comparison"
    /\ inputs.life_expectancy <= inputs.retirement_age
    /\ Get(monthly).withdrawal_years = 1
    /\ RatLess(Zero, Get(monthly).provident_gross_monthly)

\* a direct call with a positive balance and no horizon, at a rate of 0
C29_ZeroHorizonWitness ==
    /\ op = "calculate_monthly_withdrawal"
    /\ args.withdrawal_years <= 0
    /\ RatLess(Zero, args.balance)
    /\ args.annual_return_during_withdrawal = Zero
    /\ Get(payment) = Zero

\* the indices of the entries of a summary's age_results where the fund wins
WinningEntries(self) ==
    {i \in 1..Len(self.age_results) : provident_wins(self.age_results[i])}

C30_LateCrossoverWitness ==
    /\ op = "run_full_comparison"
    /\ has_crossover(Get(summary))
    /\ Get(Get(summary).crossover_age) > args.min_age

\* a non-empty summary without a crossover and without the current age
C30_AbsentWitness ==
    /\ op = "run_full_comparison"
    /\ Len(Get(summary).age_results) >= 2
    /\ ~has_crossover(Get(summary))
    /\ winner_at_current_age(Get(summary)) = "Unknown"

====
